---- MODULE Spec2Model ----
(***************************************************************************)
(* Model of the Jarvis voice pipeline (backend/services/voice):            *)
(*   VADService      - hysteresis state machine over audio frames          *)
(*   VoicePipeline   - process_audio_input, stream_audio_input,            *)
(*                     synthesize_response (an async generator, modelled   *)
(*                     step by step at its suspension points),             *)
(*                     _handle_interruption, cancel_playback, reset,       *)
(*                     initialize                                          *)
(*   STTService      - transcribe_audio and its provider error handling    *)
(*   TTSService      - _split_sentences, synthesize, stream_synthesis      *)
(* Probabilities are integers in percent (0.5 -> 50).  An audio frame is   *)
(* represented by its arrival number, so the utterance buffer is the       *)
(* sequence of the numbers of the frames that were appended to it.  A text *)
(* given to the synthesizer is a sequence of characters.                   *)
(***************************************************************************)
EXTENDS Integers, Sequences, FiniteSets, TLC

\* ---------------------------------------------------------------- bounds
MaxFrames == 5          \* frames fed to the pipeline in one behaviour
MaxVadFrames == 8       \* frames fed to the stand-alone detector
MaxSentences == 2       \* sentences of one synthesis request
MaxTextLen == 5         \* characters of a text given to stream_synthesis
MaxChunks == 21         \* chunks of one buffered stream transcription
MaxSessionFrames == 2   \* audio messages received by all sessions together
MaxHandlers == 3        \* event handlers registered on one pipeline
MaxUtteranceFrames == 5 \* frames of a behaviour that records its frames
\* configured durations (VADConfig fields; small values keep the frame
\* counts small: 2 speech frames start an utterance, 2 silence frames end it)
min_speech_duration_ms == 60
min_silence_duration_ms == 60

\* ------------------------------------------------------------- constants
chunk_size_ms == 30
threshold == 50
probability_threshold == 70
interruption_threshold == 60

\* speech probabilities a frame can have: silence, speech between the
\* configured interruption threshold and the hard-coded one, speech above both
Probs == {30, 65, 80}

\* the synthesize_response generators that can be alive at once
Streams == {1, 2}

\* the voice WebSocket sessions that can be open at once; session s consumes
\* generator s
Sessions == {1, 2}
NoSessions == [connected |-> {}]

\* the registered event handlers in registration order (a handler is named
\* by a number), and for the last _emit_event the handlers that raised, the
\* handlers that were called, in order, and whether the exception left it
NoBus == [handlers |-> <<>>, failing |-> {}, called |-> <<>>, raised |-> FALSE]

\* the handlers that can be registered
Handlers == 1..MaxHandlers

\* VoicePipeline.on_event
OnEvent(handler, handlers) == Append(handlers, handler)

\* VoicePipeline._emit_event from handler i on: failing are the handlers
\* that raise an Exception when called
RECURSIVE EmitFromMutant(_, _, _, _)
EmitFromMutant(handlers, failing, i, called) ==
    IF i > Len(handlers)
    THEN [called |-> called, raised |-> FALSE]
    ELSE IF handlers[i] \in failing
    THEN [called |-> Append(called, handlers[i]), raised |-> TRUE]
    ELSE EmitFromMutant(handlers, failing, i + 1, Append(called, handlers[i]))
RECURSIVE EmitFrom(_, _, _, _)
EmitFrom(handlers, failing, i, called) ==
    IF i > Len(handlers)
    THEN [called |-> called, raised |-> FALSE]
    ELSE IF handlers[i] \in failing
    THEN EmitFrom(handlers, failing, i + 1, Append(called, handlers[i]))
    ELSE EmitFrom(handlers, failing, i + 1, Append(called, handlers[i]))

EmitEvent(handlers, failing) == EmitFrom(handlers, failing, 1, <<>>)

VARIABLES
    \* VoicePipeline fields
    state, is_playing, interrupted, audio_buffer,
    \* VADService fields
    speech_frames, silence_frames, current_state,
    \* PipelineConfig.enable_interruption
    enable_interruption,
    \* one record per synthesize_response generator
    streams,
    \* observation of the last operation: its name, the VADResult it
    \* computed, the events it emitted, its return value, the audio it
    \* handed to the recognizer
    op, who, vad_result, emitted, ret, handed,
    \* the values the last operation assigned to the pipeline state, in order
    writes,
    \* number of frames received so far, number of the last interrupting frame
    frameNo, lastIntr,
    \* what the recognizer did during the last operation
    stt,
    \* an interruption or an effective cancel_playback has occurred
    disturbed,
    \* the input of a stream_synthesis call and what the call produced
    tts_in, tts_out,
    \* snapshot of the detector before the last detector operation, and the
    \* frames seen by the stand-alone detector since its last reset
    vad_pre, hist,
    \* VADConfig.provider, whether VADService._silero_model is loaded, and
    \* the estimator the last process_audio used
    vad_backend,
    \* the locals of a running STTService._stream_buffered call and the
    \* callbacks it has made
    stt_stream,
    \* the voice WebSocket sessions that are open
    sessions,
    \* VoicePipeline._event_handlers and what the last _emit_event did
    bus

vars == <<state, is_playing, interrupted, audio_buffer,
          speech_frames, silence_frames, current_state,
          enable_interruption, streams,
          op, who, vad_result, emitted, ret, handed, writes,
          frameNo, lastIntr, stt, disturbed, tts_in, tts_out,
          vad_pre, hist, vad_backend, stt_stream, sessions, bus>>

pipeVars == <<state, is_playing, interrupted, audio_buffer,
              enable_interruption, streams, who, emitted, ret, handed,
              writes, frameNo, lastIntr, stt, disturbed, tts_in, tts_out,
              stt_stream, sessions, bus>>

\* ---------------------------------------------------------- VADService
frame_duration_ms == chunk_size_ms

min_speech_frames == min_speech_duration_ms \div frame_duration_ms
min_silence_frames == min_silence_duration_ms \div frame_duration_ms

Vad(cs, sf, slf) ==
    [current_state |-> cs, speech_frames |-> sf, silence_frames |-> slf]

TheVad == Vad(current_state, speech_frames, silence_frames)

\* VADService.reset
VadResetMutant(v) == Vad("silence", 0, v.silence_frames)
VadReset(v) == Vad("silence", 0, 0)

\* VADService._update_state: the returned state and the new detector
UpdateStateMutant(is_speech, v) ==
    IF is_speech
    THEN LET sf == v.speech_frames + 1 IN
         IF v.current_state = "silence"
         THEN IF sf >= min_speech_frames
              THEN [returned |-> "speech_start", vad |-> Vad("speech_start", sf, 0)]
              ELSE [returned |-> "silence", vad |-> Vad("silence", sf, 0)]
         ELSE IF v.current_state = "speech_start"
         THEN [returned |-> "speech", vad |-> Vad("speech", sf, 0)]
         ELSE [returned |-> "speech", vad |-> Vad(v.current_state, sf, 0)]
    ELSE LET slf == v.silence_frames + 1 IN
         IF v.current_state \in {"speech_start", "speech"}
         THEN IF slf >= min_silence_frames
              THEN [returned |-> "speech_end", vad |-> Vad("speech", 0, slf)]
              ELSE [returned |-> "speech", vad |-> Vad(v.current_state, v.speech_frames, slf)]
         ELSE [returned |-> "silence", vad |-> Vad("silence", 0, slf)]
UpdateStateMutantKeep(is_speech, v) ==
    IF is_speech
    THEN LET sf == v.speech_frames + 1 IN
         IF v.current_state = "silence"
         THEN IF sf >= min_speech_frames
              THEN [returned |-> "speech_start", vad |-> Vad("speech_start", sf, 0)]
              ELSE [returned |-> "silence", vad |-> Vad("silence", sf, 0)]
         ELSE IF v.current_state = "speech_start"
         THEN [returned |-> "speech", vad |-> Vad("speech", sf, 0)]
         ELSE [returned |-> "speech", vad |-> Vad(v.current_state, sf, 0)]
    ELSE LET slf == v.silence_frames + 1 IN
         IF v.current_state \in {"speech_start", "speech"}
         THEN IF slf >= min_silence_frames
              THEN [returned |-> "speech_end", vad |-> Vad("speech_end", 0, slf)]
              ELSE [returned |-> "speech", vad |-> Vad(v.current_state, v.speech_frames, slf)]
         ELSE [returned |-> "silence", vad |-> Vad("silence", v.speech_frames, slf)]
UpdateState(is_speech, v) ==
    IF is_speech
    THEN LET sf == v.speech_frames + 1 IN
         IF v.current_state = "silence"
         THEN IF sf >= min_speech_frames
              THEN [returned |-> "speech_start", vad |-> Vad("speech_start", sf, 0)]
              ELSE [returned |-> "silence", vad |-> Vad("silence", sf, 0)]
         ELSE IF v.current_state = "speech_start"
         THEN [returned |-> "speech", vad |-> Vad("speech", sf, 0)]
         ELSE [returned |-> "speech", vad |-> Vad(v.current_state, sf, 0)]
    ELSE LET slf == v.silence_frames + 1 IN
         IF v.current_state \in {"speech_start", "speech"}
         THEN IF slf >= min_silence_frames
              THEN [returned |-> "speech_end", vad |-> Vad("speech_end", 0, slf)]
              ELSE [returned |-> "speech", vad |-> Vad(v.current_state, v.speech_frames, slf)]
         ELSE [returned |-> "silence", vad |-> Vad("silence", 0, slf)]

\* VADService.process_audio: the VADResult and the new detector
VadProcessAudio(probability, v) ==
    LET is_speech == probability >= threshold
        u == UpdateState(is_speech, v)
        duration_ms == IF u.returned = "speech_end"
                       THEN u.vad.speech_frames * frame_duration_ms
                       ELSE 0
    IN [result |-> [is_speech |-> is_speech, probability |-> probability,
                    state |-> u.returned, duration_ms |-> duration_ms],
        vad |-> u.vad]

NoVadResult == [is_speech |-> FALSE, probability |-> 0,
                state |-> "none", duration_ms |-> 0]

SetVad(v) ==
    /\ current_state' = v.current_state
    /\ speech_frames' = v.speech_frames
    /\ silence_frames' = v.silence_frames

\* ---------------------------------------------------------- STTService
\* what the provider does with a transcription request: it answers with a
\* text, possibly empty, or the call fails (network, timeout, auth)
Answers == {[ok |-> TRUE, text |-> "hello"], [ok |-> TRUE, text |-> ""],
            [ok |-> FALSE, text |-> ""]}

\* confidence in percent
TranscriptResult(text, is_final, confidence) ==
    [text |-> text, is_final |-> is_final, confidence |-> confidence]

NoTranscript == TranscriptResult("", FALSE, 0)

\* STTService.transcribe_audio: the provider method that is dispatched to
\* returns the provider's text with is_final and the confidence 1.0, and
\* catches the exception of a failed call
TranscribeAudioMutant(answer) ==
    IF answer.ok
    THEN [raised |-> FALSE, result |-> TranscriptResult(answer.text, TRUE, 100)]
    ELSE [raised |-> TRUE, result |-> NoTranscript]
TranscribeAudio(answer) ==
    IF answer.ok
    THEN [raised |-> FALSE, result |-> TranscriptResult(answer.text, TRUE, 100)]
    ELSE [raised |-> FALSE, result |-> TranscriptResult("", TRUE, 0)]

\* the recognizer was not called
NoStt == [called |-> FALSE, ok |-> TRUE, raised |-> FALSE,
          result |-> NoTranscript]

\* STTService._stream_buffered: the assumed duration of a chunk and the
\* buffered duration that triggers an interim transcription
chunk_duration_ms == 100
transcribe_interval_ms == 1000

\* the locals of a _stream_buffered call (buffer holds the numbers of the
\* chunks it contains), the number of chunks received, the audio of each
\* transcribe_audio call, the results passed to on_transcript, and whether
\* the call has returned
NoSttStream == [buffer |-> <<>>, buffer_duration_ms |-> 0, received |-> 0,
                calls |-> <<>>, callbacks |-> <<>>, ended |-> FALSE]

\* one iteration of the loop of _stream_buffered over a non-empty chunk
StreamBufferedChunkMutant(answer, L) ==
    LET buffer == Append(L.buffer, L.received + 1)
        duration == L.buffer_duration_ms + chunk_duration_ms
    IN  IF duration >= transcribe_interval_ms
        THEN [L EXCEPT !.buffer = buffer, !.buffer_duration_ms = 0,
                       !.received = @ + 1,
                       !.calls = Append(@, buffer),
                       !.callbacks = Append(@,
                           [TranscribeAudio(answer).result
                               EXCEPT !.is_final = FALSE])]
        ELSE [L EXCEPT !.buffer = buffer, !.buffer_duration_ms = duration,
                       !.received = @ + 1]
StreamBufferedChunk(answer, L) ==
    LET buffer == Append(L.buffer, L.received + 1)
        duration == L.buffer_duration_ms + chunk_duration_ms
    IN  IF duration >= transcribe_interval_ms
        THEN [L EXCEPT !.buffer = <<>>, !.buffer_duration_ms = 0,
                       !.received = @ + 1,
                       !.calls = Append(@, buffer),
                       !.callbacks = Append(@,
                           [TranscribeAudio(answer).result
                               EXCEPT !.is_final = FALSE])]
        ELSE [L EXCEPT !.buffer = buffer, !.buffer_duration_ms = duration,
                       !.received = @ + 1]

\* whether that iteration calls transcribe_audio
ChunkTranscribes(L) ==
    L.buffer_duration_ms + chunk_duration_ms >= transcribe_interval_ms

\* the input stream is exhausted: the final transcription of _stream_buffered
StreamBufferedEnd(answer, L) ==
    IF L.buffer # <<>>
    THEN [L EXCEPT !.calls = Append(@, L.buffer),
                   !.callbacks = Append(@,
                       [TranscribeAudio(answer).result
                           EXCEPT !.is_final = TRUE]),
                   !.ended = TRUE]
    ELSE [L EXCEPT !.ended = TRUE]

\* ---------------------------------------------------------- TTSService
Chars == {"a", ".", "?", " "}
Whitespace == {" "}
Boundary == {".", "!", "?"}
Providers == {"openai", "elevenlabs", "apple"}

\* str.strip
RECURSIVE LStrip(_)
LStrip(s) ==
    IF s # <<>> /\ Head(s) \in Whitespace THEN LStrip(Tail(s)) ELSE s

RECURSIVE RStrip(_)
RStrip(s) ==
    IF s # <<>> /\ s[Len(s)] \in Whitespace
    THEN RStrip(SubSeq(s, 1, Len(s) - 1)) ELSE s

Strip(s) == RStrip(LStrip(s))

\* the end of the match of \s+ that starts at position i
RECURSIVE RunEnd(_, _)
RunEnd(text, i) ==
    IF i <= Len(text) /\ text[i] \in Whitespace THEN RunEnd(text, i + 1) ELSE i

\* re.split(r'(?<=[.!?])\s+', text) from position i on, `cur` being the
\* piece collected since the last match
RECURSIVE ReSplit(_, _, _)
ReSplit(text, i, cur) ==
    IF i > Len(text) THEN <<cur>>
    ELSE IF i > 1 /\ text[i - 1] \in Boundary /\ text[i] \in Whitespace
    THEN <<cur>> \o ReSplit(text, RunEnd(text, i), <<>>)
    ELSE ReSplit(text, i + 1, Append(cur, text[i]))

\* TTSService._split_sentences
SplitSentencesMutant(text) ==
    LET parts == ReSplit(text, 1, <<>>)
        result == [k \in 1..Len(parts) |-> Strip(parts[k])]
    IN IF result # <<>> THEN result ELSE <<text>>
SplitSentences(text) ==
    LET parts == ReSplit(text, 1, <<>>)
        stripped == [k \in 1..Len(parts) |-> Strip(parts[k])]
        result == SelectSeq(stripped, LAMBDA sentence : sentence # <<>>)
    IN IF result # <<>> THEN result ELSE <<text>>

\* data is "" for b"" and "audio" for the bytes a provider returned
AudioChunk(data, text_segment) ==
    [data |-> data, is_final |-> FALSE, text_segment |-> text_segment,
     raised |-> FALSE]

\* TTSService._synthesize_openai; ok: the provider call succeeds
SynthesizeOpenaiMutant(text, ok) ==
    IF ok THEN AudioChunk("audio", text)
    ELSE [AudioChunk("", text) EXCEPT !.raised = TRUE]
SynthesizeOpenai(text, ok) ==
    IF ok THEN AudioChunk("audio", text) ELSE AudioChunk("", text)

\* TTSService._synthesize_elevenlabs: falls back to OpenAI
SynthesizeElevenlabs(text, ok, openai_ok) ==
    IF ok THEN AudioChunk("audio", text) ELSE SynthesizeOpenai(text, openai_ok)

\* TTSService.synthesize
Synthesize(provider, text, openai_ok, elevenlabs_ok) ==
    IF provider = "openai" THEN SynthesizeOpenai(text, openai_ok)
    ELSE IF provider = "elevenlabs"
    THEN SynthesizeElevenlabs(text, elevenlabs_ok, openai_ok)
    ELSE SynthesizeOpenai(text, openai_ok)

\* the input of a stream_synthesis call: the text, the configured provider
\* and, per provider, the sentences (by position) for which its call fails
TtsInput(text, provider, openai_down, elevenlabs_down) ==
    [text |-> text, provider |-> provider,
     openai_down |-> openai_down, elevenlabs_down |-> elevenlabs_down]

NoTtsInput == TtsInput(<<>>, "openai", {}, {})

\* the loop of TTSService.stream_synthesis from sentence i on (1-based):
\* the chunks yielded, and whether an exception left the generator
RECURSIVE StreamFrom(_, _, _, _)
StreamFrom(in, sentences, i, chunks) ==
    IF i > Len(sentences)
    THEN [done |-> TRUE, chunks |-> chunks, raised |-> FALSE]
    ELSE IF Strip(sentences[i]) = <<>>
    THEN StreamFrom(in, sentences, i + 1, chunks)
    ELSE LET is_final == (i = Len(sentences))
             chunk == Synthesize(in.provider, sentences[i],
                                 i \notin in.openai_down,
                                 i \notin in.elevenlabs_down)
         IN IF chunk.raised
            THEN [done |-> TRUE, chunks |-> chunks, raised |-> TRUE]
            ELSE StreamFrom(in, sentences, i + 1,
                            Append(chunks,
                                   [chunk EXCEPT !.is_final = is_final,
                                                 !.text_segment = sentences[i]]))

\* TTSService.stream_synthesis, consumed to its end
StreamSynthesis(in) == StreamFrom(in, SplitSentences(in.text), 1, <<>>)

NoTtsOutput == [done |-> FALSE, chunks |-> <<>>, raised |-> FALSE]

\* --------------------------------------- VADService: the estimator used
\* VADConfig.provider and whether _silero_model is set; load_failed records
\* that a model load has failed, estimator which estimator computed the
\* probability of the last frame
Backend(provider, silero_model, load_failed, estimator) ==
    [provider |-> provider, silero_model |-> silero_model,
     load_failed |-> load_failed, estimator |-> estimator]

NoBackend == Backend("silero", FALSE, FALSE, "none")

\* VADService._init_silero: load_ok is whether importing torch and loading
\* the model succeed
InitSileroMutant(load_ok, b) ==
    IF load_ok
    THEN [raised |-> FALSE, backend |-> [b EXCEPT !.silero_model = TRUE]]
    ELSE [raised |-> FALSE, backend |-> [b EXCEPT !.load_failed = TRUE]]
InitSilero(load_ok, b) ==
    IF load_ok
    THEN [raised |-> FALSE, backend |-> [b EXCEPT !.silero_model = TRUE]]
    ELSE [raised |-> FALSE,
          backend |-> [b EXCEPT !.provider = "energy", !.load_failed = TRUE]]

\* VADService.initialize
VadInitialize(load_ok, b) ==
    IF b.provider = "silero"
    THEN InitSilero(load_ok, b)
    ELSE [raised |-> FALSE, backend |-> b]

\* the branch of VADService.process_audio that computes the probability
Estimator(b) ==
    IF b.provider = "silero" /\ b.silero_model THEN "silero" ELSE "energy"

\* ------------------------------------------------------------------ Init
\* a synthesize_response generator: where it is suspended, the number of
\* sentences of its text, the number of chunks obtained so far, whether the
\* request was cancelled, the pipeline state an interruption found, and
\* whether a later synthesize_response call started while it was running
NoStream == [pc |-> "idle", total |-> 0, idx |-> 0, cancelled |-> FALSE,
             intr_from |-> "none", superseded |-> FALSE]

InitPipeline ==
    /\ state = "idle"
    /\ is_playing = FALSE
    /\ interrupted = FALSE
    /\ audio_buffer = <<>>
    /\ speech_frames = 0
    /\ silence_frames = 0
    /\ current_state = "silence"
    /\ enable_interruption \in BOOLEAN
    /\ streams = [s \in Streams |-> NoStream]
    /\ op = "init"
    /\ who = 0
    /\ writes = <<>>
    /\ vad_result = NoVadResult
    /\ emitted = <<>>
    /\ ret = "None"
    /\ handed = <<>>
    /\ frameNo = 0
    /\ lastIntr = 0
    /\ stt = NoStt
    /\ disturbed = FALSE
    /\ tts_out = NoTtsOutput
    /\ vad_pre = TheVad
    /\ hist = <<>>
    /\ vad_backend = NoBackend
    /\ stt_stream = NoSttStream
    /\ sessions = NoSessions
    /\ bus = NoBus

Init == InitPipeline /\ tts_in = NoTtsInput

\* ------------------------------------------- the detector on its own
\* vad.process_audio(frame) called directly on a detector
VadFrame(p) ==
    /\ Len(hist) < MaxVadFrames
    /\ LET r == VadProcessAudio(p, TheVad) IN
        /\ SetVad(r.vad)
        /\ vad_result' = r.result
        /\ hist' = Append(hist, <<r.result.is_speech, r.result.state>>)
    /\ vad_pre' = TheVad
    /\ vad_backend' = [vad_backend EXCEPT !.estimator = Estimator(vad_backend)]
    /\ op' = "vad.process_audio"
    /\ UNCHANGED pipeVars

\* vad.reset() called directly on a detector
VadResetOp ==
    /\ SetVad(VadReset(TheVad))
    /\ vad_pre' = TheVad
    /\ hist' = <<>>
    /\ op' = "vad.reset"
    /\ vad_result' = NoVadResult
    /\ UNCHANGED <<pipeVars, vad_backend>>

\* vad.initialize() called directly on a detector
VadInitializeOp(load_ok) ==
    /\ LET i == VadInitialize(load_ok, vad_backend) IN
        /\ vad_backend' = i.backend
        /\ ret' = IF i.raised THEN "raise" ELSE "None"
    /\ op' = "vad.initialize"
    /\ UNCHANGED <<state, is_playing, interrupted, audio_buffer,
                   speech_frames, silence_frames, current_state,
                   enable_interruption, streams, who, vad_result, emitted,
                   handed, writes, frameNo, lastIntr, stt, disturbed,
                   tts_in, tts_out, vad_pre, hist, stt_stream, sessions, bus>>

NextVAD ==
    \/ \E p \in Probs : VadFrame(p)
    \/ VadResetOp
    \/ \E load_ok \in BOOLEAN : VadInitializeOp(load_ok)

SpecVAD == Init /\ [][NextVAD]_vars

\* -------------------------------------------------------- VoicePipeline
\* the fields of the pipeline and of its detector as one value
Pipe(st, pl, it, buf, v) ==
    [state |-> st, is_playing |-> pl, interrupted |-> it,
     audio_buffer |-> buf, vad |-> v]

ThePipe == Pipe(state, is_playing, interrupted, audio_buffer, TheVad)

\* what an operation did: the new pipeline, the events emitted in order,
\* the values assigned to _state in order, the return value, the audio
\* passed to stt.transcribe_audio, whether _handle_interruption ran, and
\* what the recognizer did ("raise" as return value: an exception left the
\* operation)
Outcome(P, ev, wr, rv, hd, intr) ==
    [pipe |-> P, emitted |-> ev, writes |-> wr, ret |-> rv,
     handed |-> hd, intr |-> intr, stt |-> NoStt]

\* the recognizer was called and the provider gave `answer`
Transcribed(answer, t) ==
    [called |-> TRUE, ok |-> answer.ok, raised |-> t.raised,
     result |-> t.result]

\* VoicePipeline._handle_interruption (_current_tts_task is never assigned,
\* so the task cancellation is skipped)
HandleInterruptionMutant(P) ==
    Outcome(Pipe("listening", FALSE, TRUE, P.audio_buffer, VadReset(P.vad)),
            << <<"state_change", "interrupted">>,
               <<"interruption", "user_speech">> >>,
            <<"interrupted", "listening">>, "None", <<>>, TRUE)
HandleInterruption(P) ==
    Outcome(Pipe("listening", FALSE, TRUE, <<>>, VadReset(P.vad)),
            << <<"state_change", "interrupted">>,
               <<"interruption", "user_speech">> >>,
            <<"interrupted", "listening">>, "None", <<>>, TRUE)

\* process_audio_input with one slip: "dedent" runs the transcription block
\* outside the SPEECH_END branch, "silence_ends" treats every frame without
\* speech as the end of the utterance, "always_enabled" skips the test of
\* enable_interruption, "keep_buffer" does not clear the buffer on
\* SPEECH_START
ProcessAudioInputVariant(bug, frame, probability, answer, enabled, P) ==
    LET r == VadProcessAudio(probability, P.vad)
        vr == r.result
        vadEv == <<"vad", vr.state>>
        P0 == [P EXCEPT !.vad = r.vad]
    IN
    IF P.is_playing /\ vr.is_speech /\ (enabled \/ bug = "always_enabled")
       /\ vr.probability >= probability_threshold
    THEN LET h == HandleInterruption(P0)
         IN [h EXCEPT !.emitted = <<vadEv>> \o h.emitted]
    ELSE
    LET start == vr.state = "speech_start"
        st1 == IF start THEN "listening" ELSE P.state
        buf1 == IF start /\ bug # "keep_buffer" THEN <<>> ELSE P.audio_buffer
        ev1 == IF start THEN << <<"state_change", "listening">> >> ELSE <<>>
        wr1 == IF start THEN <<"listening">> ELSE <<>>
        buf2 == IF vr.is_speech /\ st1 = "listening"
                THEN Append(buf1, frame) ELSE buf1
        ending == IF bug = "silence_ends" THEN ~vr.is_speech
                  ELSE vr.state = "speech_end"
        st2 == IF ending THEN "processing" ELSE st1
        ev2 == <<vadEv>> \o ev1 \o
               (IF ending THEN << <<"state_change", "processing">> >> ELSE <<>>)
        wr2 == IF ending THEN Append(wr1, "processing") ELSE wr1
        t == TranscribeAudio(answer)
    IN
    IF (ending \/ bug = "dedent") /\ buf2 # <<>>
    THEN IF t.result.text # ""
         THEN [Outcome([P0 EXCEPT !.state = st2, !.audio_buffer = <<>>],
                       Append(ev2, <<"transcript", t.result.text>>), wr2,
                       "transcript", buf2, FALSE)
               EXCEPT !.stt = Transcribed(answer, t)]
         ELSE [Outcome([P0 EXCEPT !.state = st2, !.audio_buffer = <<>>],
                       ev2, wr2, "None", buf2, FALSE)
               EXCEPT !.stt = Transcribed(answer, t)]
    ELSE Outcome([P0 EXCEPT !.state = st2, !.audio_buffer = buf2],
                 ev2, wr2, "None", <<>>, FALSE)

ProcessAudioInputMutantDedent(frame, probability, answer, enabled, P) ==
    ProcessAudioInputVariant("dedent", frame, probability, answer, enabled, P)

ProcessAudioInputMutantSilence(frame, probability, answer, enabled, P) ==
    ProcessAudioInputVariant("silence_ends", frame, probability, answer, enabled, P)

ProcessAudioInputMutantEnabled(frame, probability, answer, enabled, P) ==
    ProcessAudioInputVariant("always_enabled", frame, probability, answer, enabled, P)

ProcessAudioInputMutantKeep(frame, probability, answer, enabled, P) ==
    ProcessAudioInputVariant("keep_buffer", frame, probability, answer, enabled, P)

\* VoicePipeline.process_audio_input for frame number `frame` with speech
\* probability `probability`; `answer` is what the recognizer's provider
\* would do with a request
ProcessAudioInput(frame, probability, answer, enabled, P) ==
    LET r == VadProcessAudio(probability, P.vad)
        vr == r.result
        vadEv == <<"vad", vr.state>>
        P0 == [P EXCEPT !.vad = r.vad]
    IN
    IF P.is_playing /\ vr.is_speech /\ enabled
       /\ vr.probability >= probability_threshold
    THEN LET h == HandleInterruption(P0)
         IN [h EXCEPT !.emitted = <<vadEv>> \o h.emitted]
    ELSE
    LET start == vr.state = "speech_start"
        st1 == IF start THEN "listening" ELSE P.state
        buf1 == IF start THEN <<>> ELSE P.audio_buffer
        ev1 == IF start THEN << <<"state_change", "listening">> >> ELSE <<>>
        wr1 == IF start THEN <<"listening">> ELSE <<>>
        buf2 == IF vr.is_speech /\ st1 = "listening"
                THEN Append(buf1, frame) ELSE buf1
    IN
    IF vr.state = "speech_end"
    THEN LET ev2 == <<vadEv>> \o ev1 \o << <<"state_change", "processing">> >>
             wr2 == Append(wr1, "processing")
             t == TranscribeAudio(answer)
             o == IF t.raised
                  THEN Outcome([P0 EXCEPT !.state = "processing", !.audio_buffer = buf2],
                               ev2, wr2, "raise", buf2, FALSE)
                  ELSE IF t.result.text # ""
                  THEN Outcome([P0 EXCEPT !.state = "processing", !.audio_buffer = <<>>],
                               Append(ev2, <<"transcript", t.result.text>>), wr2,
                               "transcript", buf2, FALSE)
                  ELSE Outcome([P0 EXCEPT !.state = "processing", !.audio_buffer = <<>>],
                               ev2, wr2, "None", buf2, FALSE)
         IN
         IF buf2 # <<>>
         THEN [o EXCEPT !.stt = Transcribed(answer, t)]
         ELSE Outcome([P0 EXCEPT !.state = "processing", !.audio_buffer = buf2],
                      ev2, wr2, "None", <<>>, FALSE)
    ELSE Outcome([P0 EXCEPT !.state = st1, !.audio_buffer = buf2],
                 <<vadEv>> \o ev1, wr1, "None", <<>>, FALSE)

\* one iteration of the loop of VoicePipeline.stream_audio_input
StreamAudioInput(frame, probability, answer, enabled, P) ==
    IF P.interrupted
    THEN Outcome([P EXCEPT !.interrupted = FALSE, !.vad = VadReset(P.vad)],
                 <<>>, <<>>, "None", <<>>, FALSE)
    ELSE ProcessAudioInput(frame, probability, answer, enabled, P)

\* VoicePipeline.synthesize_response up to its first suspension
SynthesizeStart(P) ==
    Outcome([P EXCEPT !.state = "speaking", !.is_playing = TRUE],
            << <<"state_change", "speaking">> >>, <<"speaking">>,
            "None", <<>>, FALSE)

\* the finally block of VoicePipeline.synthesize_response
SynthesizeFinallyMutant(P) ==
    IF ~P.interrupted
    THEN Outcome([P EXCEPT !.state = "idle"],
                 << <<"state_change", "idle">> >>, <<"idle">>,
                 "None", <<>>, FALSE)
    ELSE Outcome(P, <<>>, <<>>, "None", <<>>, FALSE)
SynthesizeFinally(P) ==
    IF ~P.interrupted
    THEN Outcome([P EXCEPT !.is_playing = FALSE, !.state = "idle"],
                 << <<"state_change", "idle">> >>, <<"idle">>,
                 "None", <<>>, FALSE)
    ELSE Outcome([P EXCEPT !.is_playing = FALSE], <<>>, <<>>,
                 "None", <<>>, FALSE)

\* VoicePipeline.cancel_playback
CancelPlaybackMutantAlways(P) ==
    Outcome([P EXCEPT !.interrupted = TRUE],
            << <<"playback_cancelled">> >>, <<>>, "None", <<>>, FALSE)
CancelPlaybackMutantNoFlag(P) ==
    IF P.is_playing
    THEN Outcome(P, << <<"playback_cancelled">> >>, <<>>, "None", <<>>, FALSE)
    ELSE Outcome(P, <<>>, <<>>, "None", <<>>, FALSE)
CancelPlayback(P) ==
    IF P.is_playing
    THEN Outcome([P EXCEPT !.interrupted = TRUE],
                 << <<"playback_cancelled">> >>, <<>>, "None", <<>>, FALSE)
    ELSE Outcome(P, <<>>, <<>>, "None", <<>>, FALSE)

\* VoicePipeline.reset
ResetMutant(P) ==
    Outcome(Pipe("idle", FALSE, P.interrupted, <<>>, VadReset(P.vad)),
            <<>>, <<"idle">>, "None", <<>>, FALSE)
Reset(P) ==
    Outcome(Pipe("idle", FALSE, FALSE, <<>>, VadReset(P.vad)),
            <<>>, <<"idle">>, "None", <<>>, FALSE)

\* VoicePipeline.initialize
Initialize(P) ==
    Outcome([P EXCEPT !.state = "idle"], <<>>, <<"idle">>, "None", <<>>, FALSE)

\* ---------------------------------------------------------------- actions
Active(s) == streams[s].pc # "idle"

\* store the outcome of operation `name` run by `w` (0: the caller of the
\* pipeline, s: generator s)
ApplyIn(name, w, o) ==
    /\ state' = o.pipe.state
    /\ is_playing' = o.pipe.is_playing
    /\ interrupted' = o.pipe.interrupted
    /\ audio_buffer' = o.pipe.audio_buffer
    /\ SetVad(o.pipe.vad)
    /\ op' = name
    /\ who' = w
    /\ emitted' = o.emitted
    /\ writes' = o.writes
    /\ ret' = o.ret
    /\ handed' = o.handed
    /\ stt' = o.stt
    /\ UNCHANGED <<enable_interruption, tts_in, tts_out, vad_pre,
                   vad_backend, stt_stream>>

\* an operation called on the pipeline directly, outside any session,
\* with no handler registered
Apply(name, w, o) == ApplyIn(name, w, o) /\ UNCHANGED <<sessions, bus, hist>>

\* the streams after an operation of the caller: an interruption or an
\* effective cancel_playback cancels the requests that are running
MarkCancelled(cancel, intr) ==
    [s \in Streams |->
        IF Active(s) /\ (cancel \/ intr)
        THEN [streams[s] EXCEPT
                !.cancelled = TRUE,
                !.intr_from = IF intr /\ @ = "none" THEN state ELSE @]
        ELSE streams[s]]

\* the answer drawn when the operation does not call the recognizer
Unasked == [ok |-> TRUE, text |-> ""]

\* a frame arrives and the caller passes it to process_audio_input; the
\* provider's answer is an input only when the recognizer is called
AudioFrame(p, answer) ==
    /\ LET o == ProcessAudioInput(frameNo + 1, p, answer, enable_interruption, ThePipe)
       IN /\ o.stt.called \/ answer = Unasked
          /\ ApplyIn("process_audio_input", 0, o)
          /\ vad_result' = VadProcessAudio(p, TheVad).result
          /\ streams' = MarkCancelled(FALSE, o.intr)
          /\ lastIntr' = IF o.intr THEN frameNo + 1 ELSE lastIntr
          /\ disturbed' = (disturbed \/ o.intr)
    /\ frameNo' = frameNo + 1

ProcessAudio(p, answer) ==
    /\ frameNo < MaxFrames
    /\ AudioFrame(p, answer)
    /\ UNCHANGED <<sessions, bus, hist>>

\* the same with a record of the frame kept: whether the detector
\* classified it as speech and the state the detector returned
RecordedFrame(p, answer) ==
    /\ frameNo < MaxUtteranceFrames
    /\ AudioFrame(p, answer)
    /\ hist' = Append(hist, <<vad_result'.is_speech, vad_result'.state>>)
    /\ UNCHANGED <<sessions, bus>>

\* a frame arrives at the loop of stream_audio_input, which drops it or
\* passes it to process_audio_input
StreamAudio(p, answer) ==
    /\ frameNo < MaxFrames
    /\ LET o == StreamAudioInput(frameNo + 1, p, answer, enable_interruption, ThePipe)
       IN /\ o.stt.called \/ answer = Unasked
          /\ Apply(IF interrupted THEN "stream_audio_input.skip"
                    ELSE "process_audio_input", 0, o)
          /\ vad_result' = IF interrupted THEN NoVadResult
                           ELSE VadProcessAudio(p, TheVad).result
          /\ streams' = MarkCancelled(FALSE, o.intr)
          /\ lastIntr' = IF o.intr THEN frameNo + 1 ELSE lastIntr
          /\ disturbed' = (disturbed \/ o.intr)
    /\ frameNo' = frameNo + 1

\* synthesize_response(text) is called and runs to its first suspension
\* (the emission of state_change); n is the number of sentences of text,
\* 0 for a blank text
SynthStart(s, n) ==
    /\ streams[s].pc = "idle"
    /\ Apply("synthesize_response.start", s, SynthesizeStart(ThePipe))
    /\ streams' = [t \in Streams |->
                      IF t = s
                      THEN [NoStream EXCEPT !.pc = "synth", !.total = n]
                      ELSE IF Active(t)
                      THEN [streams[t] EXCEPT !.superseded = TRUE]
                      ELSE streams[t]]
    /\ vad_result' = NoVadResult
    /\ UNCHANGED <<frameNo, lastIntr, disturbed>>

\* tts.stream_synthesis delivers the next chunk (ok: the provider call
\* succeeded) or is exhausted; the generator checks _interrupted and emits
\* the audio event, or leaves through the finally block (ok is an input
\* only when the chunk is used)
SynthChunk(s, ok) ==
    /\ streams[s].pc = "synth"
    /\ IF streams[s].idx < streams[s].total /\ ~interrupted
       THEN /\ Apply("synthesize_response.audio", s,
                     Outcome(ThePipe,
                             << <<"audio", s, streams[s].idx + 1,
                                  streams[s].idx + 1 = streams[s].total, ok>> >>,
                             <<>>, "None", <<>>, FALSE))
            /\ streams' = [streams EXCEPT ![s].pc = "emitted", ![s].idx = @ + 1]
       ELSE /\ ok
            /\ Apply("synthesize_response.finally", s, SynthesizeFinally(ThePipe))
            /\ streams' = [streams EXCEPT ![s] = NoStream]
    /\ vad_result' = NoVadResult
    /\ UNCHANGED <<frameNo, lastIntr, disturbed>>

\* the event handlers have returned; the generator yields the chunk
SynthYield(s) ==
    /\ streams[s].pc = "emitted"
    /\ Apply("synthesize_response.yield", s,
             Outcome(ThePipe, <<>>, <<>>, "chunk", <<>>, FALSE))
    /\ streams' = [streams EXCEPT ![s].pc = "yielded"]
    /\ vad_result' = NoVadResult
    /\ UNCHANGED <<frameNo, lastIntr, disturbed>>

\* the consumer asks for the next chunk: after a non-final chunk the
\* generator sleeps and calls the synthesizer for the next sentence; after
\* the final chunk the stream is exhausted and the finally block runs
SynthResume(s) ==
    /\ streams[s].pc = "yielded"
    /\ IF streams[s].idx < streams[s].total
       THEN /\ Apply("synthesize_response.resume", s,
                     Outcome(ThePipe, <<>>, <<>>, "None", <<>>, FALSE))
            /\ streams' = [streams EXCEPT ![s].pc = "synth"]
       ELSE /\ Apply("synthesize_response.finally", s, SynthesizeFinally(ThePipe))
            /\ streams' = [streams EXCEPT ![s] = NoStream]
    /\ vad_result' = NoVadResult
    /\ UNCHANGED <<frameNo, lastIntr, disturbed>>

CancelPlaybackOp ==
    /\ Apply("cancel_playback", 0, CancelPlayback(ThePipe))
    /\ streams' = MarkCancelled(is_playing, FALSE)
    /\ disturbed' = (disturbed \/ is_playing)
    /\ vad_result' = NoVadResult
    /\ UNCHANGED <<frameNo, lastIntr>>

ResetOp ==
    /\ Apply("reset", 0, Reset(ThePipe))
    /\ vad_result' = NoVadResult
    /\ UNCHANGED <<streams, frameNo, lastIntr, disturbed>>

InitializeOp ==
    /\ Apply("initialize", 0, Initialize(ThePipe))
    /\ vad_result' = NoVadResult
    /\ UNCHANGED <<streams, frameNo, lastIntr, disturbed>>

Next ==
    \/ \E p \in Probs, answer \in Answers : ProcessAudio(p, answer)
    \/ \E p \in Probs, answer \in Answers : StreamAudio(p, answer)
    \/ \E n \in 0..MaxSentences : SynthStart(1, n)
    \/ \E ok \in BOOLEAN : SynthChunk(1, ok)
    \/ SynthYield(1)
    \/ SynthResume(1)
    \/ CancelPlaybackOp
    \/ ResetOp
    \/ InitializeOp

Spec == Init /\ [][Next]_vars

\* the operations without reset, initialize and stream_audio_input.  The
\* event loop resumes a suspended generator once what it awaits completes,
\* and its consumer keeps asking for chunks (weak fairness of the generator
\* steps); the caller keeps issuing synthesize_response (strong fairness).
NextCore ==
    \/ \E p \in Probs, answer \in Answers : ProcessAudio(p, answer)
    \/ \E n \in 0..MaxSentences : SynthStart(1, n)
    \/ \E ok \in BOOLEAN : SynthChunk(1, ok)
    \/ SynthYield(1)
    \/ SynthResume(1)
    \/ CancelPlaybackOp

FairCore ==
    /\ WF_vars(\E ok \in BOOLEAN : SynthChunk(1, ok))
    /\ WF_vars(SynthYield(1))
    /\ WF_vars(SynthResume(1))
    /\ SF_vars(\E n \in 0..MaxSentences : SynthStart(1, n))

SpecCore == Init /\ [][NextCore]_vars /\ FairCore

\* every frame goes through process_audio_input and is recorded; the
\* other operations are synthesize_response, cancel_playback and initialize
NextUtterance ==
    \/ \E p \in Probs, answer \in Answers : RecordedFrame(p, answer)
    \/ \E n \in 0..MaxSentences : SynthStart(1, n)
    \/ \E ok \in BOOLEAN : SynthChunk(1, ok)
    \/ SynthYield(1)
    \/ SynthResume(1)
    \/ CancelPlaybackOp
    \/ InitializeOp

SpecUtterance == Init /\ [][NextUtterance]_vars

\* two synthesize_response generators alive at once, no audio input
NextTwo ==
    \/ \E s \in Streams, n \in 0..MaxSentences : SynthStart(s, n)
    \/ \E s \in Streams, ok \in BOOLEAN : SynthChunk(s, ok)
    \/ \E s \in Streams : SynthYield(s)
    \/ \E s \in Streams : SynthResume(s)
    \/ CancelPlaybackOp
    \/ ResetOp

SpecTwo == Init /\ [][NextTwo]_vars

\* ------------------------------------------- the synthesizer on its own
\* a text of at most MaxTextLen characters, with any provider and any way
\* the calls of the providers that are used can fail
InitTTS ==
    /\ InitPipeline
    /\ enable_interruption
    /\ \E n \in 0..MaxTextLen : \E text \in [1..n -> Chars] :
        \E provider \in Providers :
        LET positions == 1..Len(SplitSentences(text)) IN
        \E openai_down \in SUBSET positions :
        \E elevenlabs_down \in
               IF provider = "elevenlabs" THEN SUBSET positions ELSE {{}} :
            tts_in = TtsInput(text, provider, openai_down, elevenlabs_down)

\* tts.stream_synthesis(text) is called and consumed to its end
StreamSynthesisOp ==
    /\ ~tts_out.done
    /\ tts_out' = StreamSynthesis(tts_in)
    /\ op' = "stream_synthesis"
    /\ UNCHANGED <<state, is_playing, interrupted, audio_buffer,
                   speech_frames, silence_frames, current_state,
                   enable_interruption, streams, who, vad_result, emitted,
                   ret, handed, writes, frameNo, lastIntr, stt, disturbed,
                   tts_in, vad_pre, hist, vad_backend, stt_stream, sessions,
                   bus>>

NextTTS == StreamSynthesisOp

SpecTTS == InitTTS /\ [][NextTTS]_vars

\* ------------------------------------------ voice WebSocket sessions
\* every session works on the module-level voice_pipeline: what session s
\* sees of its pipeline is the state of that one object
PipelineOf(s) == ThePipe

\* a client connects: the handler initializes the pipeline and registers
\* its event handler
SessionConnect(s) ==
    /\ s \notin sessions.connected
    /\ ~Active(s)
    /\ Len(bus.handlers) < MaxHandlers
    /\ ApplyIn("initialize", 0, Initialize(ThePipe))
    /\ sessions' = [sessions EXCEPT !.connected = @ \cup {s}]
    /\ bus' = [bus EXCEPT !.handlers = OnEvent(s, @)]
    /\ vad_result' = NoVadResult
    /\ UNCHANGED <<streams, frameNo, lastIntr, disturbed, hist>>

\* the handlers _emit_event called for the events of the last operation
\* (the handler of a session is named by the session; it catches its own
\* exceptions)
HandlersInvoked ==
    IF emitted = <<>> THEN <<>> ELSE EmitEvent(bus.handlers, {}).called

\* the handler of session s is waiting in receive_text (it reads no message
\* while it consumes a synthesize_response generator)
Receiving(s) == s \in sessions.connected /\ ~Active(s)

\* an "audio" message
SessionAudio(s, p, answer) ==
    /\ Receiving(s)
    /\ frameNo < MaxSessionFrames
    /\ ProcessAudio(p, answer)

\* a "synthesize" message and the steps of the generator it consumes
SessionSynthesize(s, n) == Receiving(s) /\ SynthStart(s, n)

SessionSynthStep(s) ==
    /\ s \in sessions.connected
    /\ \/ \E ok \in BOOLEAN : SynthChunk(s, ok)
       \/ SynthYield(s)
       \/ SynthResume(s)

\* an "interrupt" message
SessionInterrupt(s) == Receiving(s) /\ CancelPlaybackOp

\* a "reset" message
SessionReset(s) == Receiving(s) /\ ResetOp

\* the client disconnects while the handler waits for a message: the
\* finally block resets the pipeline
SessionDisconnect(s) ==
    /\ Receiving(s)
    /\ ApplyIn("reset", 0, Reset(ThePipe))
    /\ sessions' = [sessions EXCEPT !.connected = @ \ {s}]
    /\ vad_result' = NoVadResult
    /\ UNCHANGED <<streams, frameNo, lastIntr, disturbed, hist, bus>>

\* the steps the handler of session s can take
SessionStep(s) ==
    \/ SessionConnect(s)
    \/ \E p \in Probs, answer \in Answers : SessionAudio(s, p, answer)
    \/ \E n \in 0..MaxSentences : SessionSynthesize(s, n)
    \/ SessionSynthStep(s)
    \/ SessionInterrupt(s)
    \/ SessionReset(s)
    \/ SessionDisconnect(s)

NextSessions == \E s \in Sessions : SessionStep(s)

SpecSessions == Init /\ [][NextSessions]_vars

\* ------------------------------------------------ the event handlers
\* the variables on_event and _emit_event leave alone
busRest == <<state, is_playing, interrupted, audio_buffer,
             speech_frames, silence_frames, current_state,
             enable_interruption, streams, who, vad_result, emitted,
             handed, writes, frameNo, lastIntr, stt, disturbed,
             tts_in, tts_out, vad_pre, hist, vad_backend, stt_stream,
             sessions>>

\* pipeline.on_event(handler)
OnEventOp(handler) ==
    /\ Len(bus.handlers) < MaxHandlers
    /\ bus' = [bus EXCEPT !.handlers = OnEvent(handler, @)]
    /\ op' = "on_event"
    /\ ret' = "None"
    /\ UNCHANGED busRest

\* a public method of the pipeline awaits _emit_event; the handlers of
\* failing raise (the method has no handler of its own around the call, so
\* an exception that leaves _emit_event leaves the method)
EmitEventOp(failing) ==
    /\ LET e == EmitEvent(bus.handlers, failing) IN
        /\ bus' = [bus EXCEPT !.failing = failing, !.called = e.called,
                              !.raised = e.raised]
        /\ ret' = IF e.raised THEN "raise" ELSE "None"
    /\ op' = "emit_event"
    /\ UNCHANGED busRest

NextEvents ==
    \/ \E handler \in Handlers : OnEventOp(handler)
    \/ \E failing \in SUBSET Handlers : EmitEventOp(failing)

SpecEvents == Init /\ [][NextEvents]_vars

\* ------------------------------------- buffered stream transcription
\* the variables a _stream_buffered call leaves alone
sttRest == <<state, is_playing, interrupted, audio_buffer,
             speech_frames, silence_frames, current_state,
             enable_interruption, streams, who, vad_result, emitted,
             ret, handed, writes, frameNo, lastIntr, stt, disturbed,
             tts_in, tts_out, vad_pre, hist, vad_backend, sessions, bus>>

\* the audio stream delivers its next chunk (answer is an input only when
\* the chunk triggers a transcription)
SttChunk(answer) ==
    /\ ~stt_stream.ended
    /\ stt_stream.received < MaxChunks
    /\ ChunkTranscribes(stt_stream) \/ answer = Unasked
    /\ stt_stream' = StreamBufferedChunk(answer, stt_stream)
    /\ op' = "stream_transcription.chunk"
    /\ UNCHANGED sttRest

\* the audio stream ends and _stream_buffered returns
SttEnd(answer) ==
    /\ ~stt_stream.ended
    /\ stt_stream.buffer # <<>> \/ answer = Unasked
    /\ stt_stream' = StreamBufferedEnd(answer, stt_stream)
    /\ op' = "stream_transcription.end"
    /\ UNCHANGED sttRest

NextSTT ==
    \/ \E answer \in Answers : SttChunk(answer)
    \/ \E answer \in Answers : SttEnd(answer)

SpecSTT == Init /\ [][NextSTT]_vars

\* ----------------------------------------------------------- properties
HasEvent(ev, type) == \E i \in 1..Len(ev) : ev[i][1] = type

\* the last operation was a process_audio_input that ran _handle_interruption
Interrupting == op = "process_audio_input" /\ HasEvent(emitted, "interruption")

\* the step is generator s emitting an audio event
EmitsAudio(s) == op' = "synthesize_response.audio" /\ who' = s

\* the edges of the pipeline state machine
AllowedEdges ==
    { <<"idle", "listening">>, <<"listening", "listening">>,
      <<"listening", "processing">>, <<"processing", "idle">>,
      <<"idle", "speaking">>, <<"speaking", "idle">>,
      <<"speaking", "interrupted">>, <<"interrupted", "listening">> }

\* C1: without reset() and initialize(), every change of the pipeline state
\* made by process_audio_input, synthesize_response, cancel_playback and the
\* interruption handler is one of the eight edges of the state machine.
C1_OnlyAllowedEdges ==
    [][\A i \in 1..Len(writes') :
          LET from == IF i = 1 THEN state ELSE writes'[i - 1]
              to == writes'[i]
          IN from # to => <<from, to>> \in AllowedEdges]_vars

\* C2: once a synthesis request has been cancelled (cancel_playback while
\* playing, or an interruption), no audio event is emitted for it any more.
C2_NoAudioAfterCancel ==
    [][\A s \in Streams : streams[s].cancelled => ~EmitsAudio(s)]_vars

\* C3: an interruption triggered in state SPEAKING ends in LISTENING, and
\* the termination of the interrupted stream does not move the state to IDLE.
C3_InterruptedStaysListening ==
    [][/\ (Interrupting' /\ state = "speaking" => state' = "listening")
       /\ \A s \in Streams :
            (op' = "synthesize_response.finally" /\ who' = s
             /\ streams[s].intr_from = "speaking")
            => ~(state # "idle" /\ state' = "idle")]_vars

\* C4: an interruption leaves an empty utterance buffer and the state
\* LISTENING, and the audio handed to the recognizer contains only frames
\* that arrived after the last interrupting frame.
C4_NoPreInterruptionAudio ==
    /\ Interrupting =>
          audio_buffer = <<>> /\ state = "listening" /\ lastIntr = frameNo
    /\ \A i \in 1..Len(handed) : handed[i] > lastIntr

\* an utterance is transcribed after an interruption
C4_Witness ==
    /\ op = "process_audio_input"
    /\ vad_result.state = "speech_end"
    /\ handed # <<>>
    /\ lastIntr > 0

\* C5: when the process_audio_input call that handled SPEECH_END has
\* returned, the pipeline state is IDLE.
C5_IdleAfterSpeechEnd ==
    (op = "process_audio_input" /\ vad_result.state = "speech_end")
        => state = "idle"

\* C6: IDLE stays reachable without reset() and initialize(): when the
\* callers stop feeding frames and cancelling, and synthesize_response keeps
\* being called and run to its end, the state is IDLE again and again.
C6_IdleReachable ==
    []<>(state = "idle" \/ op \in {"process_audio_input", "cancel_playback"})

\* C7: a synthesize_response call made while an earlier stream is active
\* cancels the earlier stream: the earlier stream emits no audio event after
\* the new call has started.
C7_NewCallCancelsEarlier ==
    [][\A s \in Streams : streams[s].superseded => ~EmitsAudio(s)]_vars

\* C8: while playing in state SPEAKING with enable_interruption, every frame
\* whose probability reaches the configured interruption_threshold triggers
\* the interruption: SPEAKING -> INTERRUPTED -> LISTENING and an
\* interruption event.
C8_ConfiguredThresholdInterrupts ==
    [][(op' = "process_audio_input" /\ is_playing /\ state = "speaking"
        /\ enable_interruption
        /\ vad_result'.probability >= interruption_threshold)
       => (HasEvent(emitted', "interruption")
           /\ writes' = <<"interrupted", "listening">>)]_vars

\* the frames seen since the reset are n >= min_speech_frames speech frames
\* followed by at least min_silence_frames silence frames
IsBurst(h) ==
    \E n \in min_speech_frames..Len(h) :
        /\ Len(h) - n >= min_silence_frames
        /\ \A i \in 1..Len(h) : h[i][1] = (i <= n)

Returned(h, st) == {i \in 1..Len(h) : h[i][2] = st}

\* C9: from a reset detector, at least min_speech_frames speech frames
\* followed by at least min_silence_frames silence frames make the detector
\* return exactly one SPEECH_START and exactly one SPEECH_END, in this order.
C9_OneStartOneEnd ==
    IsBurst(hist) =>
        /\ Cardinality(Returned(hist, "speech_start")) = 1
        /\ Cardinality(Returned(hist, "speech_end")) = 1
        /\ \A i \in Returned(hist, "speech_start") :
             \A j \in Returned(hist, "speech_end") : i < j

\* a burst longer than both minimums, with silence left after SPEECH_END
C9_Witness ==
    /\ IsBurst(hist)
    /\ Len(hist) = MaxVadFrames
    /\ hist[min_speech_frames + 1][1]
    /\ hist[Len(hist)][2] = "silence"

\* C10: reset() leaves the detector in SILENCE with both counters zero,
\* whatever its state was.
C10_ResetClearsDetector ==
    op = "vad.reset" => TheVad = Vad("silence", 0, 0)

\* reset() called in state SPEECH with both counters positive
C10_Witness ==
    /\ op = "vad.reset"
    /\ vad_pre.current_state = "speech"
    /\ vad_pre.speech_frames > 0
    /\ vad_pre.silence_frames > 0

\* C11: process_audio_input calls the recognizer on exactly the frames on
\* which the detector reports SPEECH_END, which are the frames on which the
\* detector leaves an utterance (SPEECH_START or SPEECH) for SPEECH_END: one
\* call per utterance, none on any other frame.
C11_TranscribeOnceAtSpeechEnd ==
    [][op' = "process_audio_input" =>
         /\ (stt'.called <=> vad_result'.state = "speech_end")
         /\ (stt'.called <=> handed' # <<>>)
         /\ (stt'.called <=> (/\ current_state \in {"speech_start", "speech"}
                              /\ current_state' = "speech_end"))]_vars

\* an utterance of several frames has been handed to the recognizer
C11_Witness ==
    /\ op = "process_audio_input"
    /\ stt.called
    /\ vad_result.state = "speech_end"
    /\ Len(handed) >= 2

\* C12: process_audio_input returns a transcript only for a frame on which
\* the detector reports SPEECH_END; for every other frame and for every
\* interrupting frame it returns None.
C12_TranscriptOnlyAtSpeechEnd ==
    op = "process_audio_input" =>
        /\ (ret # "None" =>
               vad_result.state = "speech_end" /\ ~HasEvent(emitted, "interruption"))
        /\ (vad_result.state # "speech_end" \/ Interrupting => ret = "None")

\* a transcript is returned for an utterance that followed an interruption
C12_Witness ==
    /\ op = "process_audio_input"
    /\ ret = "transcript"
    /\ HasEvent(emitted, "transcript")
    /\ lastIntr > 0

\* the positions of text where a sentence ends: a character that is not
\* whitespace and is the last such character, or is boundary punctuation
\* followed by whitespace
SentenceEnds(text) ==
    {i \in 1..Len(text) :
        /\ text[i] \notin Whitespace
        /\ \/ \A j \in (i + 1)..Len(text) : text[j] \in Whitespace
           \/ text[i] \in Boundary /\ text[i + 1] \in Whitespace}

NthEnd(text, k) ==
    CHOOSE i \in SentenceEnds(text) :
        Cardinality({j \in SentenceEnds(text) : j <= i}) = k

\* the k-th sentence of text: from the first character that is not
\* whitespace after the previous sentence to the k-th sentence end
NthSentence(text, k) ==
    LET prev == IF k = 1 THEN 0 ELSE NthEnd(text, k - 1)
        first == CHOOSE i \in (prev + 1)..Len(text) :
                    /\ text[i] \notin Whitespace
                    /\ \A j \in (prev + 1)..(i - 1) : text[j] \in Whitespace
    IN SubSeq(text, first, NthEnd(text, k))

\* C13: stream_synthesis yields one chunk per sentence of the text, in
\* sentence order, and the last chunk, and only the last, has is_final.
C13_OneChunkPerSentence ==
    tts_out.done =>
        LET n == Cardinality(SentenceEnds(tts_in.text)) IN
        /\ Len(tts_out.chunks) = n
        /\ \A k \in 1..n :
              /\ tts_out.chunks[k].text_segment = NthSentence(tts_in.text, k)
              /\ tts_out.chunks[k].is_final <=> (k = n)

\* a text of two sentences ("a. a?") has been synthesized
C13_Witness ==
    /\ tts_out.done
    /\ tts_in.text = <<"a", ".", " ", "a", "?">>
    /\ Len(tts_out.chunks) = 2
    /\ ~tts_out.chunks[1].is_final
    /\ tts_out.chunks[2].is_final

\* every provider call made for sentence k fails
SynthesisFails(in, k) ==
    /\ k \in in.openai_down
    /\ in.provider = "elevenlabs" => k \in in.elevenlabs_down

\* C14: when the synthesis of sentences fails, stream_synthesis still
\* yields one chunk per sentence, exactly the chunks of the failed sentences
\* have empty data, and no exception leaves the stream.
C14_FailedSentenceGivesEmptyChunk ==
    tts_out.done =>
        LET n == Cardinality(SentenceEnds(tts_in.text)) IN
        /\ ~tts_out.raised
        /\ Len(tts_out.chunks) = n
        /\ \A k \in 1..n :
              (tts_out.chunks[k].data = "") <=> SynthesisFails(tts_in, k)

\* the second of three sentences failed, the third was synthesized
C14_Witness ==
    /\ tts_out.done
    /\ Len(tts_out.chunks) = 3
    /\ tts_out.chunks[1].data = "audio"
    /\ tts_out.chunks[2].data = ""
    /\ tts_out.chunks[3].data = "audio"
    /\ tts_out.chunks[3].is_final

\* C15: when the recognizer fails at SPEECH_END, or the synthesizer fails
\* for a sentence, the pipeline emits an error event.
C15_ErrorEventOnProviderFailure ==
    (\/ stt.called /\ ~stt.ok
     \/ \E i \in 1..Len(emitted) : emitted[i][1] = "audio" /\ ~emitted[i][5])
        => HasEvent(emitted, "error")

\* C16: a failed recognizer call raises nothing: transcribe gives the text
\* "", is_final and confidence 0.0, and process_audio_input emits no
\* transcript event and returns None.
C16_RecognizerErrorGivesNone ==
    (stt.called /\ ~stt.ok) =>
        /\ ~stt.raised
        /\ stt.result = TranscriptResult("", TRUE, 0)
        /\ ~HasEvent(emitted, "transcript")
        /\ ret = "None"

\* the recognizer failed on an utterance
C16_Witness ==
    /\ op = "process_audio_input"
    /\ vad_result.state = "speech_end"
    /\ stt.called
    /\ ~stt.ok

\* C17: cancel_playback() while not playing emits no event and leaves the
\* state, the interrupted flag, is_playing and the utterance buffer unchanged.
C17_CancelWhileNotPlaying ==
    [][(op' = "cancel_playback" /\ ~is_playing) =>
          /\ emitted' = <<>>
          /\ UNCHANGED <<state, interrupted, is_playing, audio_buffer>>]_vars

\* cancel_playback() was called while listening with audio in the buffer
C17_Witness ==
    /\ op = "cancel_playback"
    /\ ~is_playing
    /\ emitted = <<>>
    /\ state = "listening"
    /\ audio_buffer # <<>>

\* C18: cancel_playback() while playing sets interrupted and emits exactly
\* one playback_cancelled event.
C18_CancelWhilePlaying ==
    [][(op' = "cancel_playback" /\ is_playing) =>
          /\ interrupted'
          /\ emitted' = << <<"playback_cancelled">> >>]_vars

\* cancel_playback() was called during playback
C18_Witness ==
    /\ op = "cancel_playback"
    /\ is_playing
    /\ state = "speaking"
    /\ HasEvent(emitted, "playback_cancelled")

\* C19: when a synthesize_response stream ends and no interruption and no
\* cancellation has occurred, the state is IDLE, is_playing is false and a
\* state_change event with state idle has been emitted.
C19_UndisturbedStreamEndsIdle ==
    (op = "synthesize_response.finally" /\ ~disturbed) =>
        /\ state = "idle"
        /\ ~is_playing
        /\ emitted = << <<"state_change", "idle">> >>

\* a stream ended undisturbed after frames had been processed
C19_Witness ==
    /\ op = "synthesize_response.finally"
    /\ ~disturbed
    /\ frameNo > 0
    /\ HasEvent(emitted, "state_change")

\* C20: every change of the pipeline state made by process_audio_input,
\* synthesize_response, the interruption handler or reset() comes with a
\* state_change event that carries the new state.
C20_EveryChangeHasEvent ==
    [][op' # "initialize" =>
         \A i \in 1..Len(writes') :
            LET from == IF i = 1 THEN state ELSE writes'[i - 1]
                to == writes'[i]
            IN from # to =>
                 \E j \in 1..Len(emitted') :
                    emitted'[j] = <<"state_change", to>>]_vars

\* C25: the frame processed after the detector entered SPEECH_START puts the
\* detector in state SPEECH, whether it is speech or silence.
C25_SpeechStartLastsOneFrame ==
    [][(op' = "vad.process_audio" /\ current_state = "speech_start")
          => current_state' = "speech"]_vars

\* C26: the frame processed after the detector entered SPEECH_END puts the
\* detector back in state SILENCE, whether it is speech or silence.
C26_SpeechEndLastsOneFrame ==
    [][(op' = "vad.process_audio" /\ current_state = "speech_end")
          => current_state' = "silence"]_vars

\* C27: in state SPEECH a silence frame increments silence_frames; when the
\* count reaches min_silence_frames the detector moves to SPEECH_END with
\* both counters zero, otherwise it stays in SPEECH; a speech frame resets
\* silence_frames.
C27_SilenceCountInSpeech ==
    [][(op' = "vad.process_audio" /\ current_state = "speech") =>
          IF vad_result'.is_speech
          THEN current_state' = "speech" /\ silence_frames' = 0
          ELSE IF silence_frames + 1 >= min_silence_frames
          THEN /\ current_state' = "speech_end"
               /\ speech_frames' = 0
               /\ silence_frames' = 0
          ELSE /\ current_state' = "speech"
               /\ silence_frames' = silence_frames + 1]_vars

\* C28: SPEECH_START is returned only on a frame that completes a run of at
\* least min_speech_frames consecutive speech frames, the earlier frames of
\* the run having been handled in state SILENCE.
C28_StartNeedsSpeechRun ==
    \A i \in Returned(hist, "speech_start") :
        /\ i >= min_speech_frames
        /\ \A j \in (i - min_speech_frames + 1)..i : hist[j][1]
        /\ \A j \in (i - min_speech_frames + 1)..(i - 1) : hist[j][2] = "silence"

\* a speech run too short to start an utterance, a silence frame, then a
\* run that ends with SPEECH_START
C28_Witness ==
    /\ Len(hist) = min_speech_frames + min_speech_frames
    /\ min_speech_frames >= 2
    /\ \A j \in 1..Len(hist) : hist[j][1] = (j # min_speech_frames)
    /\ hist[Len(hist)][2] = "speech_start"
    /\ Cardinality(Returned(hist, "speech_start")) = 1

\* C21: reset() leaves the state IDLE, is_playing and interrupted false, the
\* utterance buffer empty and the detector in SILENCE with both counters
\* zero, whatever the state it is called in.
C21_ResetClearsPipeline ==
    op = "reset" =>
        /\ state = "idle"
        /\ ~is_playing
        /\ ~interrupted
        /\ audio_buffer = <<>>
        /\ TheVad = Vad("silence", 0, 0)

\* reset() was called during a synthesis stream, after an interruption
C21_Witness ==
    /\ op = "reset"
    /\ Active(1)
    /\ lastIntr > 0
    /\ state = "idle"

\* C29: with enable_interruption false, process_audio_input emits no
\* interruption event, leaves the interrupted flag as it was and never
\* assigns the state INTERRUPTED.
C29_NoInterruptionWhenDisabled ==
    [][(op' = "process_audio_input" /\ ~enable_interruption) =>
          /\ ~HasEvent(emitted', "interruption")
          /\ interrupted' = interrupted
          /\ state' # "interrupted"
          /\ \A i \in 1..Len(writes') : writes'[i] # "interrupted"]_vars

\* a frame above the playback threshold was processed while playing, with
\* interruptions disabled
C29_Witness ==
    /\ op = "process_audio_input"
    /\ ~enable_interruption
    /\ is_playing
    /\ ~interrupted
    /\ vad_result.probability >= probability_threshold

\* C30: once a stream has been cancelled (cancel_playback or interruption),
\* the synthesis call that is in flight or the next one is its last: when
\* that call completes, the stream terminates with is_playing false.
C30_CancelledStreamStopsAtNextCheck ==
    [][\A s \in Streams :
          (streams[s].cancelled /\ streams[s].pc = "synth" /\ who' = s)
          => (op' = "synthesize_response.finally" /\ ~is_playing')]_vars

\* C24: when the neural model fails to load, initialize() does not raise,
\* the detector switches to the energy provider, and every process_audio
\* after the failure computes its probability with the energy estimator
C24_LoadFailureFallsBackToEnergy ==
    /\ op = "vad.initialize" => ret = "None"
    /\ vad_backend.load_failed =>
          /\ vad_backend.provider = "energy"
          /\ op = "vad.process_audio" => vad_backend.estimator = "energy"

\* a frame is processed after a load failure that followed a successful load
C24_Witness ==
    /\ op = "vad.process_audio"
    /\ vad_backend.load_failed
    /\ vad_backend.silero_model
    /\ vad_backend.estimator = "energy"

\* C22: a buffered stream transcription of a non-empty stream ends with
\* exactly one result with is_final = TRUE, which is the last callback, and
\* every callback before it has is_final = FALSE
C22_EndsWithOneFinalResult ==
    (stt_stream.ended /\ stt_stream.received > 0) =>
        LET cb == stt_stream.callbacks IN
        /\ Len(cb) >= 1
        /\ cb[Len(cb)].is_final
        /\ \A i \in 1..(Len(cb) - 1) : ~cb[i].is_final

\* C23: an operation of one session never changes the pipeline state,
\* flags, audio buffer or detector counters that another open session sees
C23_SessionsIndependent ==
    [][\A a, b \in Sessions :
          (a # b /\ SessionStep(a)
             /\ b \in sessions.connected /\ b \in sessions'.connected)
          => PipelineOf(b)' = PipelineOf(b)]_vars

\* the frames on which the detector returned SPEECH_START or SPEECH_END
Marks(h) == Returned(h, "speech_start") \cup Returned(h, "speech_end")

\* the last such frame before frame i, 0 if there is none
LastMark(h, i) ==
    LET before == {j \in Marks(h) : j < i}
    IN IF before = {} THEN 0
       ELSE CHOOSE j \in before : \A k \in before : k <= j

\* C35: between two resets of the detector the SPEECH_START and SPEECH_END
\* results alternate, beginning with SPEECH_START
C35_StartAndEndAlternate ==
    \A i \in Marks(hist) :
        IF LastMark(hist, i) = 0
        THEN hist[i][2] = "speech_start"
        ELSE hist[i][2] # hist[LastMark(hist, i)][2]

\* two utterances have started since the reset, the first one has ended
C35_Witness ==
    /\ Cardinality(Returned(hist, "speech_start")) = 2
    /\ Cardinality(Returned(hist, "speech_end")) = 1
    /\ hist[Len(hist)][2] = "speech_start"

\* C36: the duration_ms returned on SPEECH_END is the number of speech
\* frames counted in the utterance that ends, times the frame duration, and
\* so is greater than zero
C36_DurationOfUtterance ==
    (op = "vad.process_audio" /\ vad_result.state = "speech_end") =>
        /\ vad_result.duration_ms = vad_pre.speech_frames * frame_duration_ms
        /\ vad_result.duration_ms > 0

\* the concatenation of the sequences of a sequence
RECURSIVE Flatten(_)
Flatten(ss) == IF ss = <<>> THEN <<>> ELSE Head(ss) \o Flatten(Tail(ss))

\* chunks is the sequence of the first n chunks of the stream
InArrivalOrder(chunks, n) ==
    Len(chunks) = n /\ \A i \in 1..n : chunks[i] = i

\* C38: in buffered stream transcription, while the stream runs, the chunks
\* received so far are, in arrival order and each once, the audio of the
\* transcribe calls made so far followed by the content of the buffer; the
\* buffer is empty after an interim transcription; once the stream has
\* ended, the audio of the transcribe calls is every chunk, in arrival
\* order and once
C38_EveryChunkTranscribedOnce ==
    LET L == stt_stream IN
    /\ ~L.ended => InArrivalOrder(Flatten(L.calls) \o L.buffer, L.received)
    /\ (op = "stream_transcription.chunk"
          /\ L.received % (transcribe_interval_ms \div chunk_duration_ms) = 0)
       => L.buffer = <<>>
    /\ L.ended => InArrivalOrder(Flatten(L.calls), L.received)

\* a stream with two interim transcriptions and a final one has ended
C38_Witness ==
    /\ stt_stream.ended
    /\ Len(stt_stream.calls) = 3
    /\ stt_stream.received > 2 * (transcribe_interval_ms \div chunk_duration_ms)

\* C31: after a process_audio_input that handled SPEECH_START the buffer
\* holds nothing but the frame of that call (nothing at all when the frame
\* interrupted a playback), and after one that handled SPEECH_END the buffer
\* is empty
C31_BufferHoldsOneUtterance ==
    op = "process_audio_input" =>
        /\ vad_result.state = "speech_start" =>
              audio_buffer = IF Interrupting THEN <<>> ELSE <<frameNo>>
        /\ vad_result.state = "speech_end" => audio_buffer = <<>>

\* SPEECH_START two frames after an interruption: the speech frame between
\* them was buffered in state LISTENING and is dropped
C31_Witness ==
    /\ op = "process_audio_input"
    /\ vad_result.state = "speech_start"
    /\ lastIntr > 0
    /\ frameNo = lastIntr + 2
    /\ audio_buffer = <<frameNo>>

\* C32: an exception raised by a registered handler does not leave
\* _emit_event, and so not the public method awaiting it, and every
\* registered handler is called for the event, in registration order
C32_HandlerErrorsAreContained ==
    op = "emit_event" =>
        /\ ~bus.raised
        /\ ret = "None"
        /\ bus.called = bus.handlers

\* the first of several handlers raised and a later one did not
C32_Witness ==
    /\ op = "emit_event"
    /\ Len(bus.handlers) >= 2
    /\ bus.handlers[1] \in bus.failing
    /\ bus.handlers[Len(bus.handlers)] \notin bus.failing

\* C39: the handlers called for an event belong to sessions that are open,
\* and there are no more registered handlers than open sessions
C39_HandlersOfOpenSessionsOnly ==
    /\ \A i \in 1..Len(HandlersInvoked) :
           HandlersInvoked[i] \in sessions.connected
    /\ Len(bus.handlers) <= Cardinality(sessions.connected)

\* C34: whenever an audio event is emitted the pipeline state is SPEAKING
\* and is_playing is true
C34_AudioOnlyWhileSpeaking ==
    op = "synthesize_response.audio" => (state = "speaking" /\ is_playing)

\* C33: a synthesize_response call that starts after a cancellation or an
\* interruption, and is not itself cancelled or interrupted, emits one
\* audio event per sentence of its text and ends with state IDLE
C33_LaterStreamUnaffected ==
    [][(op' = "synthesize_response.finally" /\ who' = 1
          /\ disturbed /\ ~streams[1].cancelled)
       => (streams[1].idx = streams[1].total /\ state' = "idle")]_vars

\* the frame on which the utterance that is open at frame n started: the
\* last frame up to n for which the detector returned SPEECH_START
UtteranceStart(h, n) ==
    LET starts == {i \in Returned(h, "speech_start") : i <= n}
    IN IF starts = {} THEN 0
       ELSE CHOOSE i \in starts : \A j \in starts : j <= i

\* the frames from frame a to frame n that were classified as speech
RECURSIVE SpeechFrames(_, _, _)
SpeechFrames(h, a, n) ==
    IF a > n THEN <<>>
    ELSE (IF h[a][1] THEN <<a>> ELSE <<>>) \o SpeechFrames(h, a + 1, n)

\* C37: the audio handed to the recognizer at SPEECH_END is, in order and
\* each once, the frames of the utterance classified as speech, from the
\* SPEECH_START frame on
C37_HandedAudioIsTheUtterance ==
    (op = "process_audio_input" /\ vad_result.state = "speech_end") =>
        handed = SpeechFrames(hist, UtteranceStart(hist, frameNo), frameNo)

====
